---- MODULE Spec2Model ----
(***************************************************************************)
(* Model of BParticles' particle function builder                          *)
(* (source/blender/simulations/bparticles/particle_function_builder.cpp).  *)
(*                                                                         *)
(* SpecBuild follows create_particle_function through its loops;           *)
(* SpecEval calls the get() method of the three input providers on a       *)
(* particle batch.                                                          *)
(***************************************************************************)
EXTENDS Integers, Sequences, FiniteSets, TLC

\* Longest list of node inputs handed to create_particle_function.
MaxInputs == 3

\* Number of provider calls made on one batch.
MaxCalls == 2

\* interface.array_allocator().array_size(): slots of one buffer.
ArraySize == 2

---------------------------------------------------------------------------
(* The data graph.  Data sockets are numbers; a virtual socket is a        *)
(* different number, so a socket and its virtual socket never compare      *)
(* equal by accident.                                                      *)

\* lookup_socket_ptr() == nullptr
NoSocket == 0

\* Sockets computed by ordinary nodes; the inputs of the node being built
\* resolve to these.
ComputedSockets == {1, 2}

\* Outputs of placeholder nodes (values only known per particle).
PlaceholderSockets == {11, 12, 13, 14}

\* Virtual sockets the placeholder outputs originate from.
VirtualSockets == {101, 102, 103, 104}

\* vsocket->vnode()->idname()
VNodeIdname(vsocket) ==
  CASE vsocket = 101 -> "bp_ParticleInfoNode"
    [] vsocket = 102 -> "bp_ParticleInfoNode"
    [] vsocket = 103 -> "bp_CollisionInfoNode"
    [] vsocket = 104 -> "bp_UnknownNode"

\* vsocket->name()
VSocketName(vsocket) ==
  CASE vsocket = 101 -> "Age"
    [] vsocket = 102 -> "Velocity"
    [] vsocket = 103 -> "Age"
    [] vsocket = 104 -> "Value"

\* The virtual socket a placeholder output originates from (one per socket,
\* and no two sockets share one).
OriginVSocket(socket) == socket + 90

VARIABLES
  assert_aborts,             \* build configuration: does a failed BLI_assert abort?
  upstream,                  \* data graph: computed socket -> sockets it reads
  vnode_inputs,              \* per input of the vnode: lookup_socket_ptr result
  pc,                        \* position inside create_particle_function
  sockets_to_compute,
  depends_on_particle_flags,
  combined_dependencies,     \* SocketDependencies {sockets, vsockets}
  i,                         \* loop index of the running loop
  sockets_with_deps,
  sockets_without_deps,
  input_providers,
  fn_without_deps,
  fn_with_deps,
  particle_fn,               \* the returned ParticleFunction
  pindices,                  \* interface.particles().pindices()
  birth_times,               \* the "Birth Time" attribute
  particle_times,            \* interface.particle_times()
  action_context,            \* interface.action_context()
  allocated,                 \* buffers handed out by interface.array_allocator()
  calls,                     \* provider calls made on this batch
  result                     \* what the last get() returned

buildVars == <<upstream, vnode_inputs, pc, sockets_to_compute,
               depends_on_particle_flags, combined_dependencies, i,
               sockets_with_deps, sockets_without_deps, input_providers,
               fn_without_deps, fn_with_deps, particle_fn>>

evalVars == <<pindices, birth_times, particle_times, action_context,
              allocated, calls, result>>

vars == <<assert_aborts, buildVars, evalVars>>

---------------------------------------------------------------------------
(* Containers *)

SeqsUpTo(S, n) == UNION {[1..k -> S] : k \in 0..n}

Range(seq) == {seq[k] : k \in 1..Len(seq)}

Contains(seq, x) == \E k \in 1..Len(seq) : seq[k] = x

\* SetVector::add: append unless already contained.
SetVectorAdd(vec, x) == IF Contains(vec, x) THEN vec ELSE Append(vec, x)

\* SetVector::add_multiple: add every value, in order.
RECURSIVE SetVectorAddMultiple(_, _)
SetVectorAddMultiple(vec, values) ==
  IF values = <<>> THEN vec
  ELSE SetVectorAddMultiple(SetVectorAdd(vec, Head(values)), Tail(values))

Min(S) == CHOOSE x \in S : \A y \in S : x <= y

RECURSIVE AscendingSeq(_)
AscendingSeq(S) ==
  IF S = {} THEN <<>> ELSE <<Min(S)>> \o AscendingSeq(S \ {Min(S)})

\* Placeholder sockets reachable upstream of a socket.
RECURSIVE ReachablePlaceholders(_)
ReachablePlaceholders(socket) ==
  IF socket \in PlaceholderSockets THEN {socket}
  ELSE UNION {ReachablePlaceholders(t) : t \in upstream[socket]}

\* VTreeDataGraph::find_placeholder_dependencies
find_placeholder_dependencies(socket) ==
  LET found == AscendingSeq(ReachablePlaceholders(socket))
  IN [sockets |-> found,
      vsockets |-> [k \in 1..Len(found) |-> OriginVSocket(found[k])]]

---------------------------------------------------------------------------
(* Construction *)

\* find_input_data_sockets: keep the inputs that resolve to a data socket.
RECURSIVE find_input_data_sockets(_)
find_input_data_sockets(inputs) ==
  IF inputs = <<>> THEN <<>>
  ELSE IF Head(inputs) # NoSocket
       THEN <<Head(inputs)>> \o find_input_data_sockets(Tail(inputs))
       ELSE find_input_data_sockets(Tail(inputs))

\* A mutation of the loop body: the flag is taken from the combined set.
FindDependenciesIteration_flagFromCombined(sockets, flags, combined, idx) ==
  LET dependencies == find_placeholder_dependencies(sockets[idx])
      acc == [sockets |-> SetVectorAddMultiple(combined.sockets, dependencies.sockets),
              vsockets |-> SetVectorAddMultiple(combined.vsockets, dependencies.vsockets)]
  IN [flags |-> [flags EXCEPT ![idx] = Len(acc.sockets) > 0],
      combined |-> acc]

\* A mutation of the loop body: the virtual sockets are kept in a plain
\* vector, so they are appended without deduplication.
FindDependenciesIteration_vsocketsAppended(sockets, flags, combined, idx) ==
  LET dependencies == find_placeholder_dependencies(sockets[idx])
  IN [flags |-> [flags EXCEPT ![idx] = Len(dependencies.sockets) > 0],
      combined |->
        [sockets |-> SetVectorAddMultiple(combined.sockets, dependencies.sockets),
         vsockets |-> combined.vsockets \o dependencies.vsockets]]

\* One iteration of the loop of find_particle_dependencies.
FindDependenciesIteration(sockets, flags, combined, idx) ==
  LET dependencies == find_placeholder_dependencies(sockets[idx])
      has_dependency == Len(dependencies.sockets) > 0
  IN [flags |-> [flags EXCEPT ![idx] = has_dependency],
      combined |->
        [sockets |-> SetVectorAddMultiple(combined.sockets, dependencies.sockets),
         vsockets |-> SetVectorAddMultiple(combined.vsockets, dependencies.vsockets)]]

\* Mutation of the partition loop: the test of the flag is negated.
RECURSIVE PartitionSockets_negated(_, _, _, _, _)
PartitionSockets_negated(sockets, flags, idx, with, without) ==
  IF idx > Len(sockets) THEN [with |-> with, without |-> without]
  ELSE IF ~flags[idx]
       THEN PartitionSockets_negated(sockets, flags, idx + 1,
                                     Append(with, sockets[idx]), without)
       ELSE PartitionSockets_negated(sockets, flags, idx + 1,
                                     with, Append(without, sockets[idx]))

\* The partition loop of create_particle_function_from_sockets, from index
\* idx on, with the two vectors built so far.
RECURSIVE PartitionSockets(_, _, _, _, _)
PartitionSockets(sockets, flags, idx, with, without) ==
  IF idx > Len(sockets) THEN [with |-> with, without |-> without]
  ELSE IF flags[idx]
       THEN PartitionSockets(sockets, flags, idx + 1, Append(with, sockets[idx]), without)
       ELSE PartitionSockets(sockets, flags, idx + 1, with, Append(without, sockets[idx]))

\* nullptr in the providers array
NullProvider == [kind |-> "nullptr", m_name |-> ""]

AgeInputProvider == [kind |-> "AgeInputProvider", m_name |-> ""]

AttributeInputProvider(name) == [kind |-> "AttributeInputProvider", m_name |-> name]

CollisionNormalInputProvider == [kind |-> "CollisionNormalInputProvider", m_name |-> ""]

\* Mutation of the factory: the input name is tested before the node kind.
create_input_provider_nameFirst(vsocket) ==
  IF VSocketName(vsocket) = "Age"
  THEN [provider |-> AgeInputProvider, assert_ok |-> TRUE]
  ELSE IF VNodeIdname(vsocket) = "bp_ParticleInfoNode"
  THEN [provider |-> AttributeInputProvider(VSocketName(vsocket)), assert_ok |-> TRUE]
  ELSE IF VNodeIdname(vsocket) = "bp_CollisionInfoNode"
  THEN [provider |-> CollisionNormalInputProvider, assert_ok |-> TRUE]
  ELSE [provider |-> NullProvider, assert_ok |-> FALSE]

\* create_input_provider: the provider returned, and whether BLI_assert(false)
\* was passed on the way.
create_input_provider(vsocket) ==
  IF VNodeIdname(vsocket) = "bp_ParticleInfoNode"
  THEN IF VSocketName(vsocket) = "Age"
       THEN [provider |-> AgeInputProvider, assert_ok |-> TRUE]
       ELSE [provider |-> AttributeInputProvider(VSocketName(vsocket)), assert_ok |-> TRUE]
  ELSE IF VNodeIdname(vsocket) = "bp_CollisionInfoNode"
  THEN [provider |-> CollisionNormalInputProvider, assert_ok |-> TRUE]
  ELSE [provider |-> NullProvider, assert_ok |-> FALSE]

\* No function built yet.
NoFunction == [inputs |-> <<>>, outputs |-> <<>>, bodies |-> {}]

\* Mutation: the runtime function is given every requested socket as output.
BuildFunctionWithDeps_allOutputs(to_compute, dependencies) ==
  [inputs |-> dependencies.sockets,
   outputs |-> sockets_to_compute,
   bodies |-> {"TupleCallBody", "LLVMBuildIRBody"}]

\* create_function__with_deps: the function built (builder inputs and
\* outputs, and the bodies attached to it).
BuildFunctionWithDeps(to_compute, dependencies) ==
  [inputs |-> dependencies.sockets,
   outputs |-> to_compute,
   bodies |-> {"TupleCallBody", "LLVMBuildIRBody"}]

\* create_function__without_deps
BuildFunctionWithoutDeps(to_compute) ==
  [inputs |-> <<>>,
   outputs |-> to_compute,
   bodies |-> {"TupleCallBody"}]

\* Mutation of the provider loop: the provider is stored one slot further.
ProviderIteration_shifted(providers, dependencies, idx) ==
  [providers EXCEPT ![(idx % Len(providers)) + 1] =
     create_input_provider(dependencies.vsockets[idx]).provider]

\* One iteration of the provider loop of create_function__with_deps.
ProviderIteration(providers, dependencies, idx) ==
  [providers EXCEPT ![idx] = create_input_provider(dependencies.vsockets[idx]).provider]

\* No ParticleFunction returned (yet).
NoParticleFunction ==
  [fn_without_deps |-> NoFunction, fn_with_deps |-> NoFunction,
   input_providers |-> <<>>, depends_on_particle_flags |-> <<>>]

---------------------------------------------------------------------------
(* The providers' get() *)

\* Nothing returned yet.
NoResult == [provider |-> NullProvider, status |-> "none", storage |-> "none",
             index |-> 0, stride |-> 0, is_newly_allocated |-> FALSE,
             values |-> <<>>]

\* The attributes of the particle block, in storage order.
AttributeNames == <<"Birth Time", "Velocity">>

\* AttributeArrays::attribute_index
attribute_index(name) == CHOOSE k \in 1..Len(AttributeNames) : AttributeNames[k] = name

\* AttributeArrays::attribute_stride: sizeof(float), sizeof(float3)
attribute_stride(index) == IF AttributeNames[index] = "Birth Time" THEN 4 ELSE 12

\* Mutation: the attribute view is reported as newly allocated.
AttributeInputProvider_get_owning(provider) ==
  [provider |-> provider, status |-> "returned", storage |-> "attributes",
   index |-> attribute_index(provider.m_name),
   stride |-> attribute_stride(attribute_index(provider.m_name)),
   is_newly_allocated |-> TRUE, values |-> <<>>]

\* AttributeInputProvider::get
AttributeInputProvider_get(provider) ==
  [provider |-> provider, status |-> "returned", storage |-> "attributes",
   index |-> attribute_index(provider.m_name),
   stride |-> attribute_stride(attribute_index(provider.m_name)),
   is_newly_allocated |-> FALSE, values |-> <<>>]

\* Mutation: the remaining duration is not subtracted from the end time.
AgeInputProvider_ages_noDuration(ages) ==
  IF particle_times.type = "Current"
  THEN [p \in DOMAIN ages |->
          IF p \in pindices
          THEN particle_times.current_times[p] - birth_times[p]
          ELSE ages[p]]
  ELSE [p \in DOMAIN ages |->
          IF p \in pindices
          THEN particle_times.end_time - birth_times[p]
          ELSE ages[p]]

\* The two loops of AgeInputProvider::get over the freshly allocated buffer.
AgeInputProvider_ages(ages) ==
  IF particle_times.type = "Current"
  THEN [p \in DOMAIN ages |->
          IF p \in pindices
          THEN particle_times.current_times[p] - birth_times[p]
          ELSE ages[p]]
  ELSE [p \in DOMAIN ages |->
          IF p \in pindices
          THEN particle_times.end_time - particle_times.remaining_durations[p]
               - birth_times[p]
          ELSE ages[p]]

\* The ways CollisionNormalInputProvider::get can end.  With assertions
\* compiled to nothing a null collision_info is dereferenced, which is
\* undefined: the call may crash or return an array read through the null
\* pointer.
CollisionNormalInputProvider_get ==
  LET collision_info_ok == action_context = "CollisionEventInfo"
      ret(status, storage) ==
        [provider |-> CollisionNormalInputProvider, status |-> status,
         storage |-> storage, index |-> 0, stride |-> 12,
         is_newly_allocated |-> FALSE, values |-> <<>>]
  IN IF collision_info_ok THEN {ret("returned", "action_context")}
     ELSE IF assert_aborts THEN {ret("aborted", "none")}
     ELSE {ret("crashed", "none"), ret("returned", "invalid")}

\* Contents an allocated buffer may have before it is written.
Garbage == {-1, 9}

BirthValues == {0, 2}

CurrentValues == {3, 5}

DurationValues == {0, 1}

EndValues == {5, 6}

ParticleTimesValues ==
  {[type |-> "Current", current_times |-> c, remaining_durations |-> <<>>,
    end_time |-> 0] : c \in [1..ArraySize -> CurrentValues]}
  \cup
  {[type |-> "DurationAndEnd", current_times |-> <<>>, remaining_durations |-> d,
    end_time |-> e] : d \in [1..ArraySize -> DurationValues], e \in EndValues}

\* The build is never run in SpecEval.
IdleBuild ==
  /\ upstream = [c \in ComputedSockets |-> {}]
  /\ vnode_inputs = <<>>
  /\ pc = "idle"
  /\ sockets_to_compute = <<>>
  /\ depends_on_particle_flags = <<>>
  /\ combined_dependencies = [sockets |-> <<>>, vsockets |-> <<>>]
  /\ i = 1
  /\ sockets_with_deps = <<>>
  /\ sockets_without_deps = <<>>
  /\ input_providers = <<>>
  /\ fn_without_deps = NoFunction
  /\ fn_with_deps = NoFunction
  /\ particle_fn = NoParticleFunction

InitEval ==
  /\ assert_aborts \in BOOLEAN
  /\ IdleBuild
  /\ pindices \in SUBSET (1..ArraySize)
  /\ birth_times \in [1..ArraySize -> BirthValues]
  /\ particle_times \in ParticleTimesValues
  /\ action_context \in {"nullptr", "CollisionEventInfo", "MeshCollisionContext"}
  /\ allocated = 0
  /\ calls = 0
  /\ result = NoResult

\* A call that ended in abort() or a crash ends the evaluation.
Running == calls < MaxCalls /\ result.status \in {"none", "returned"}

CallAttributeGet ==
  /\ Running
  /\ \E name \in Range(AttributeNames) :
        result' = AttributeInputProvider_get(AttributeInputProvider(name))
  /\ calls' = calls + 1
  /\ UNCHANGED <<assert_aborts, buildVars, pindices, birth_times, particle_times,
                 action_context, allocated>>

CallAgeGet ==
  /\ Running
  /\ \E ages \in [1..ArraySize -> Garbage] :
        result' = [provider |-> AgeInputProvider, status |-> "returned",
                   storage |-> "array_allocator", index |-> allocated + 1,
                   stride |-> 4, is_newly_allocated |-> TRUE,
                   values |-> AgeInputProvider_ages(ages)]
  /\ allocated' = allocated + 1
  /\ calls' = calls + 1
  /\ UNCHANGED <<assert_aborts, buildVars, pindices, birth_times, particle_times,
                 action_context>>

CallCollisionNormalGet ==
  /\ Running
  /\ result' \in CollisionNormalInputProvider_get
  /\ calls' = calls + 1
  /\ UNCHANGED <<assert_aborts, buildVars, pindices, birth_times, particle_times,
                 action_context, allocated>>

NextEval ==
  \/ CallAttributeGet
  \/ CallAgeGet
  \/ CallCollisionNormalGet

SpecEval == InitEval /\ [][NextEval]_vars

---------------------------------------------------------------------------
(* create_particle_function, step by step *)

\* Graphs over the sockets: socket 1 reads placeholders, socket 2 reads
\* placeholders and socket 1.
Graphs ==
  {g \in [ComputedSockets -> SUBSET (PlaceholderSockets \cup ComputedSockets)] :
     /\ g[1] \subseteq PlaceholderSockets
     /\ g[2] \subseteq PlaceholderSockets \cup {1}}

\* The batch SpecBuild does not use.
IdleEval ==
  /\ pindices = {}
  /\ birth_times = <<>>
  /\ particle_times = [type |-> "Current", current_times |-> <<>>,
                       remaining_durations |-> <<>>, end_time |-> 0]
  /\ action_context = "nullptr"
  /\ allocated = 0
  /\ calls = 0
  /\ result = NoResult

InitBuild ==
  /\ assert_aborts \in BOOLEAN
  /\ IdleEval
  /\ upstream \in Graphs
  /\ vnode_inputs \in SeqsUpTo(ComputedSockets \cup {NoSocket}, MaxInputs)
  /\ pc = "start"
  /\ sockets_to_compute = <<>>
  /\ depends_on_particle_flags = <<>>
  /\ combined_dependencies = [sockets |-> <<>>, vsockets |-> <<>>]
  /\ i = 1
  /\ sockets_with_deps = <<>>
  /\ sockets_without_deps = <<>>
  /\ input_providers = <<>>
  /\ fn_without_deps = NoFunction
  /\ fn_with_deps = NoFunction
  /\ particle_fn = NoParticleFunction

\* create_particle_function up to the call of find_particle_dependencies.
FindInputDataSockets ==
  /\ pc = "start"
  /\ sockets_to_compute' = find_input_data_sockets(vnode_inputs)
  /\ depends_on_particle_flags' =
       [k \in 1..Len(find_input_data_sockets(vnode_inputs)) |-> FALSE]
  /\ combined_dependencies' = [sockets |-> <<>>, vsockets |-> <<>>]
  /\ i' = 1
  /\ pc' = "find_dependencies"
  /\ UNCHANGED evalVars
  /\ UNCHANGED <<assert_aborts, upstream, vnode_inputs, sockets_with_deps,
                 sockets_without_deps, input_providers, fn_without_deps,
                 fn_with_deps, particle_fn>>

\* One iteration of find_particle_dependencies, with its BLI_assert.
FindDependenciesStep ==
  /\ pc = "find_dependencies"
  /\ i <= Len(sockets_to_compute)
  /\ LET r == FindDependenciesIteration(sockets_to_compute, depends_on_particle_flags,
                                         combined_dependencies, i)
     IN /\ depends_on_particle_flags' = r.flags
        /\ combined_dependencies' = r.combined
        /\ IF Len(r.combined.sockets) # Len(r.combined.vsockets) /\ assert_aborts
           THEN pc' = "aborted" /\ i' = i
           ELSE pc' = pc /\ i' = i + 1
  /\ UNCHANGED evalVars
  /\ UNCHANGED <<assert_aborts, upstream, vnode_inputs, sockets_to_compute,
                 sockets_with_deps, sockets_without_deps, input_providers,
                 fn_without_deps, fn_with_deps, particle_fn>>

\* find_particle_dependencies returns; create_particle_function_from_sockets
\* partitions the sockets and sizes the providers vector.
Partition ==
  /\ pc = "find_dependencies"
  /\ i > Len(sockets_to_compute)
  /\ LET r == PartitionSockets(sockets_to_compute, depends_on_particle_flags,
                                1, <<>>, <<>>)
     IN /\ sockets_with_deps' = r.with
        /\ sockets_without_deps' = r.without
  /\ input_providers' = [k \in 1..Len(combined_dependencies.sockets) |-> NullProvider]
  /\ pc' = "without_deps"
  /\ UNCHANGED evalVars
  /\ UNCHANGED <<assert_aborts, upstream, vnode_inputs, sockets_to_compute,
                 depends_on_particle_flags, combined_dependencies, i,
                 fn_without_deps, fn_with_deps, particle_fn>>

\* create_function__without_deps, then entry of create_function__with_deps
\* with its size assertion.
CreateFunctionWithoutDeps ==
  /\ pc = "without_deps"
  /\ fn_without_deps' = BuildFunctionWithoutDeps(sockets_without_deps)
  /\ i' = 1
  /\ IF Len(combined_dependencies.sockets) # Len(input_providers) /\ assert_aborts
     THEN pc' = "aborted"
     ELSE pc' = "providers"
  /\ UNCHANGED evalVars
  /\ UNCHANGED <<assert_aborts, upstream, vnode_inputs, sockets_to_compute,
                 depends_on_particle_flags, combined_dependencies,
                 sockets_with_deps, sockets_without_deps, input_providers,
                 fn_with_deps, particle_fn>>

\* One iteration of the provider loop; a failed BLI_assert(false) in
\* create_input_provider aborts when assertions abort, and otherwise the
\* nullptr it returns is stored.
CreateProviderStep ==
  /\ pc = "providers"
  /\ i <= Len(combined_dependencies.sockets)
  /\ LET made == create_input_provider(combined_dependencies.vsockets[i])
     IN IF ~made.assert_ok /\ assert_aborts
        THEN /\ pc' = "aborted"
             /\ UNCHANGED <<input_providers, i>>
        ELSE /\ input_providers' =
                  ProviderIteration(input_providers, combined_dependencies, i)
             /\ i' = i + 1
             /\ pc' = pc
  /\ UNCHANGED evalVars
  /\ UNCHANGED <<assert_aborts, upstream, vnode_inputs, sockets_to_compute,
                 depends_on_particle_flags, combined_dependencies,
                 sockets_with_deps, sockets_without_deps,
                 fn_without_deps, fn_with_deps, particle_fn>>

\* The rest of create_function__with_deps.
CreateFunctionWithDeps ==
  /\ pc = "providers"
  /\ i > Len(combined_dependencies.sockets)
  /\ fn_with_deps' = BuildFunctionWithDeps(sockets_with_deps, combined_dependencies)
  /\ pc' = "assemble"
  /\ UNCHANGED evalVars
  /\ UNCHANGED <<assert_aborts, upstream, vnode_inputs, sockets_to_compute,
                 depends_on_particle_flags, combined_dependencies, i,
                 sockets_with_deps, sockets_without_deps, input_providers,
                 fn_without_deps, particle_fn>>

\* new ParticleFunction(...) and the return of the success value.
ReturnParticleFunction ==
  /\ pc = "assemble"
  /\ particle_fn' = [fn_without_deps |-> fn_without_deps,
                     fn_with_deps |-> fn_with_deps,
                     input_providers |-> input_providers,
                     depends_on_particle_flags |-> depends_on_particle_flags]
  /\ pc' = "returned"
  /\ UNCHANGED evalVars
  /\ UNCHANGED <<assert_aborts, upstream, vnode_inputs, sockets_to_compute,
                 depends_on_particle_flags, combined_dependencies, i,
                 sockets_with_deps, sockets_without_deps, input_providers,
                 fn_without_deps, fn_with_deps>>

NextBuild ==
  \/ FindInputDataSockets
  \/ FindDependenciesStep
  \/ Partition
  \/ CreateFunctionWithoutDeps
  \/ CreateProviderStep
  \/ CreateFunctionWithDeps
  \/ ReturnParticleFunction

SpecBuild == InitBuild /\ [][NextBuild]_vars

---------------------------------------------------------------------------
(* Properties of the construction (SpecBuild) *)

\* The partition loop has run.
Partitioned == pc \in {"without_deps", "providers", "assemble", "returned"}

\* Requested sockets whose iteration of find_particle_dependencies is over.
Analysed ==
  IF pc = "find_dependencies" THEN i - 1
  ELSE IF Partitioned THEN Len(sockets_to_compute)
  ELSE 0

\* Providers whose iteration of the provider loop is over.
Created ==
  IF pc = "providers" THEN i - 1
  ELSE IF pc \in {"assemble", "returned"} THEN Len(input_providers)
  ELSE 0

FlagCount(flags, b, upto) == Cardinality({k \in 1..upto : flags[k] = b})

\* The index of the n-th flag equal to b.
NthIndex(flags, b, n) ==
  CHOOSE j \in 1..Len(flags) : flags[j] = b /\ FlagCount(flags, b, j) = n

\* Walk the flags, taking the next element of with on TRUE and of without
\* on FALSE.
RECURSIVE MergeByFlags(_, _, _)
MergeByFlags(flags, with, without) ==
  IF flags = <<>> THEN <<>>
  ELSE IF Head(flags)
       THEN <<Head(with)>> \o MergeByFlags(Tail(flags), Tail(with), without)
       ELSE <<Head(without)>> \o MergeByFlags(Tail(flags), with, Tail(without))

\* C1: the partition puts exactly the sockets with a true flag, in order, in
\* the with-dependency list and exactly those with a false flag, in order, in
\* the without-dependency list; every index lands in one list only, and
\* merging the two lists along the flags gives back the requested list.
C1_PartitionReconstructs ==
  Partitioned =>
    LET flags == depends_on_particle_flags
        n == Len(sockets_to_compute)
    IN /\ Len(flags) = n
       /\ Len(sockets_with_deps) = FlagCount(flags, TRUE, n)
       /\ Len(sockets_without_deps) = FlagCount(flags, FALSE, n)
       /\ Len(sockets_with_deps) + Len(sockets_without_deps) = n
       /\ \A k \in 1..Len(sockets_with_deps) :
             sockets_with_deps[k] = sockets_to_compute[NthIndex(flags, TRUE, k)]
       /\ \A k \in 1..Len(sockets_without_deps) :
             sockets_without_deps[k] = sockets_to_compute[NthIndex(flags, FALSE, k)]
       /\ MergeByFlags(flags, sockets_with_deps, sockets_without_deps)
            = sockets_to_compute

\* A partition of three different-flagged sockets, interleaved.
C1_Witness ==
  /\ Partitioned
  /\ depends_on_particle_flags = <<TRUE, FALSE, TRUE>>
  /\ sockets_to_compute = <<2, 1, 2>>
  /\ sockets_with_deps = <<2, 2>>
  /\ sockets_without_deps = <<1>>

\* C2: while and after find_particle_dependencies accumulates, the combined
\* set's sockets and vsockets have the same size and vsockets[k] is the
\* virtual socket sockets[k] originates from.
C2_DependencySetAligned ==
  LET d == combined_dependencies
  IN /\ Len(d.sockets) = Len(d.vsockets)
     /\ \A k \in 1..Len(d.sockets) : d.vsockets[k] = OriginVSocket(d.sockets[k])

\* Two requested sockets that share dependencies, accumulated in an order
\* that is not the order of one query.
C2_Witness ==
  /\ pc = "find_dependencies"
  /\ Len(sockets_to_compute) >= 2
  /\ i > Len(sockets_to_compute)
  /\ ReachablePlaceholders(sockets_to_compute[1])
       \cap ReachablePlaceholders(sockets_to_compute[2]) # {}
  /\ Len(combined_dependencies.sockets) >= 3
  /\ \E k \in 1..(Len(combined_dependencies.sockets) - 1) :
        combined_dependencies.sockets[k] > combined_dependencies.sockets[k + 1]

\* C3: the flag recorded for a requested socket is true exactly when that
\* socket itself reaches a placeholder socket, whatever the other sockets
\* reach and whatever was accumulated before.
C3_FlagIsOwnDependency ==
  /\ Analysed <= Len(depends_on_particle_flags)
  /\ \A k \in 1..Analysed :
        depends_on_particle_flags[k]
          = (ReachablePlaceholders(sockets_to_compute[k]) # {})

\* A socket without dependencies analysed after one with dependencies.
C3_Witness ==
  /\ Analysed = 2
  /\ combined_dependencies.sockets # <<>>
  /\ depends_on_particle_flags[1]
  /\ ~depends_on_particle_flags[2]
  /\ ReachablePlaceholders(sockets_to_compute[2]) = {}

\* C4: a returned Particle Function has one provider per element of the
\* Dependency Set, and provider k is the one create_input_provider gives for
\* the k-th originating virtual socket, which is the origin of input k of the
\* runtime function.
C4_ProvidersAligned ==
  pc = "returned" =>
    LET providers == particle_fn.input_providers
        d == combined_dependencies
    IN /\ Len(providers) = Len(d.sockets)
       /\ Len(providers) = Len(d.vsockets)
       /\ Len(providers) = Len(particle_fn.fn_with_deps.inputs)
       /\ \A k \in 1..Len(providers) :
             /\ providers[k] = create_input_provider(d.vsockets[k]).provider
             /\ d.vsockets[k] = OriginVSocket(particle_fn.fn_with_deps.inputs[k])

\* A returned function with three providers of three kinds.
C4_Witness ==
  /\ pc = "returned"
  /\ Len(particle_fn.input_providers) >= 3
  /\ \E a, b, c \in 1..Len(particle_fn.input_providers) :
        /\ particle_fn.input_providers[a].kind = "AgeInputProvider"
        /\ particle_fn.input_providers[b].kind = "AttributeInputProvider"
        /\ particle_fn.input_providers[c].kind = "CollisionNormalInputProvider"

\* C5: the provider made for a virtual socket is the derived-age provider for
\* a particle-info node's "Age", an attribute provider holding the input's
\* name for any other input of a particle-info node, and the collision-normal
\* provider for a collision-info node whatever the input's name.
C5_ProviderDispatch ==
  /\ Created <= Len(input_providers)
  /\ Created <= Len(combined_dependencies.vsockets)
  /\ \A k \in 1..Created :
        LET v == combined_dependencies.vsockets[k]
            made == input_providers[k]
        IN /\ (VNodeIdname(v) = "bp_ParticleInfoNode" /\ VSocketName(v) = "Age")
                => made = [kind |-> "AgeInputProvider", m_name |-> ""]
           /\ (VNodeIdname(v) = "bp_ParticleInfoNode" /\ VSocketName(v) # "Age")
                => made = [kind |-> "AttributeInputProvider",
                           m_name |-> VSocketName(v)]
           /\ VNodeIdname(v) = "bp_CollisionInfoNode"
                => made = [kind |-> "CollisionNormalInputProvider", m_name |-> ""]

\* Providers made for "Age" of a particle-info node, for "Age" of a
\* collision-info node and for another input of a particle-info node.
C5_Witness ==
  /\ Created >= 3
  /\ {101, 102, 103} \subseteq
       {combined_dependencies.vsockets[k] : k \in 1..Created}

\* C6: no Particle Function is returned whose providers array holds an absent
\* provider (the factory met a node kind that is neither particle-info nor
\* collision-info).
C6_NoAbsentProviderReturned ==
  pc = "returned" =>
    \A k \in 1..Len(particle_fn.input_providers) :
      particle_fn.input_providers[k] # NullProvider

\* C10: the runtime function's inputs are the Dependency Set's sockets in
\* order and its outputs the requested sockets that have dependencies, in
\* order; the constant function has no inputs and the requested sockets
\* without dependencies as outputs; with no dependency at all the runtime
\* function has no inputs and there are no providers.
C10_FunctionSignatures ==
  pc = "returned" =>
    LET HasDeps(s) == ReachablePlaceholders(s) # {}
        NoDeps(s) == ReachablePlaceholders(s) = {}
    IN /\ particle_fn.fn_with_deps.inputs = combined_dependencies.sockets
       /\ particle_fn.fn_with_deps.outputs = sockets_with_deps
       /\ particle_fn.fn_with_deps.outputs = SelectSeq(sockets_to_compute, HasDeps)
       /\ particle_fn.fn_without_deps.inputs = <<>>
       /\ particle_fn.fn_without_deps.outputs = sockets_without_deps
       /\ particle_fn.fn_without_deps.outputs = SelectSeq(sockets_to_compute, NoDeps)
       /\ (\A k \in 1..Len(sockets_to_compute) : NoDeps(sockets_to_compute[k]))
            => /\ particle_fn.fn_with_deps.inputs = <<>>
               /\ particle_fn.input_providers = <<>>

\* A returned function with outputs on both sides and two runtime inputs.
C10_Witness ==
  /\ pc = "returned"
  /\ Len(particle_fn.fn_with_deps.inputs) >= 2
  /\ particle_fn.fn_with_deps.outputs # <<>>
  /\ particle_fn.fn_without_deps.outputs # <<>>

---------------------------------------------------------------------------
(* Properties of the providers (SpecEval) *)

\* current_time(p) of the claim, by Particle Times variant.
CurrentTimeOf(p) ==
  IF particle_times.type = "Current"
  THEN particle_times.current_times[p]
  ELSE particle_times.end_time - particle_times.remaining_durations[p]

\* C7: the buffer the derived-age provider returns holds, for every active
\* particle index p, current_time(p) - birth_time[p].
C7_AgeValues ==
  (result.provider.kind = "AgeInputProvider" /\ result.status = "returned") =>
    /\ DOMAIN result.values = 1..ArraySize
    /\ \A p \in pindices : result.values[p] = CurrentTimeOf(p) - birth_times[p]

\* Ages of a sparse batch under the DurationAndEnd variant, with a particle
\* whose remaining duration is not zero.
C7_Witness ==
  /\ result.provider.kind = "AgeInputProvider"
  /\ particle_times.type = "DurationAndEnd"
  /\ pindices = {2}
  /\ particle_times.remaining_durations[2] = 1
  /\ birth_times[2] = 2

\* C8: a call of the attribute provider allocates nothing and returns a view
\* of attribute storage marked non-owning; a call of the derived-age provider
\* allocates one buffer and returns it marked owning.
C8_AllocationAndOwnership ==
  [][/\ (calls' = calls + 1 /\ result'.provider.kind = "AttributeInputProvider")
        => /\ allocated' = allocated
           /\ result'.storage = "attributes"
           /\ ~result'.is_newly_allocated
     /\ (calls' = calls + 1 /\ result'.provider.kind = "AgeInputProvider")
        => /\ allocated' = allocated + 1
           /\ result'.storage = "array_allocator"
           /\ result'.index = allocated'
           /\ result'.is_newly_allocated]_vars

\* An attribute call made after an age call: one buffer stays allocated.
C8_Witness ==
  /\ calls = 2
  /\ allocated = 1
  /\ result.provider.kind = "AttributeInputProvider"
  /\ result.status = "returned"

\* C9: with an absent action context, or one that is no collision event
\* context, the collision-normal provider never returns an input array.
C9_NoArrayWithoutCollisionContext ==
  (result.provider.kind = "CollisionNormalInputProvider"
     /\ action_context # "CollisionEventInfo")
    => result.status # "returned"

====
